---- MODULE Spec2Model ----
(***************************************************************************)
(* Factorization-machine incremental scorer and structured Gaussian        *)
(* sampler of the Note-2024 notebooks.                                     *)
(*                                                                         *)
(* Arrays are sequences (1-based where Python is 0-based); a 2-D array is  *)
(* a sequence of rows.  Numbers are exact integers: every float operation  *)
(* of the notebooks is modelled in exact arithmetic.                       *)
(***************************************************************************)
EXTENDS Integers, Sequences, FiniteSets, TLC

VARIABLES
    x, b, w, v,       \* the batch x (D x N) and self.params
    f, q,             \* the cached predictions f (D) and projections q (D x K)
    y_data, it, ret,  \* fast_updates(iter, fm, x_data, y_data): targets, loop counter, (x, y)
    loc,              \* local variables of the update code being executed
    pc,               \* position in fast_updates / in sample_gaussian_efficient
    Phi, alpha, Delta, \* the arguments of sample_gaussian_efficient
    DeltaL,           \* its local variable Delta (np.diag(Delta) for a 1-D argument)
    u, eps,           \* the draws: u ~ N(0, Delta), eps ~ N(0, I_D)
    sv, sw,           \* its locals v and w
    theta             \* the value it returns

fmVars == <<x, b, w, v, f, q>>
loopVars == <<y_data, it, ret, loc>>
gsVars == <<Phi, alpha, Delta, DeltaL, u, eps, sv, sw, theta>>
vars == <<x, b, w, v, f, q, y_data, it, ret, loc, pc,
          Phi, alpha, Delta, DeltaL, u, eps, sv, sw, theta>>

\* a variable that holds nothing yet
None == <<>>

\* the sampler's variables while the factorization machine runs
GsIdle ==
    /\ Phi = None /\ alpha = None /\ Delta = None /\ DeltaL = None
    /\ u = None /\ eps = None /\ sv = None /\ sw = None /\ theta = None

\* the factorization machine's variables while the sampler runs
FmIdle ==
    /\ x = None /\ b = 0 /\ w = None /\ v = None /\ f = None /\ q = None
    /\ y_data = None /\ it = 0 /\ ret = None /\ loc = None

(***************************************************************************)
(* Sizes and input values                                                  *)
(***************************************************************************)
\* num_features and num_factors handed to FactorizationMachines(...)
N == 2
K == 2
\* largest batch size D of x
MaxD == 2
\* iterations of the timing loops (iter = 1000 and iter = 100 in the notebooks)
MaxIter == 3
\* the loops' step: v[0, 0] - 100
Step == 100
\* values of the targets y_data
YVals == {0, 1}
\* entries of Phi and of alpha, and the value of every entry of eps
PhiVals == {0, 1}
AlphaVals == {0, 1}
EpsVals == {0, 1}
\* diagonal entries of Delta (perfect squares: np.sqrt is exact on them)
DeltaVals == {1, 4}
\* standard normal draws z behind rng.normal(0, sqrt(Delta))
ZVals == {-1, 0, 1}
\* coordinates of a draw of rng.multivariate_normal(0, Delta)
UVals == {-1, 0, 2}
\* values a feature takes: rng.choice((0, 1), size=(D, N))
XVals == {0, 1}
\* values the constructor draws for w and for v (b = rng.normal(0, 0.) is 0)
WInitVals == {0, 1}
VInitVals == {-1, 0}
\* values an update gives to b, to an entry of w and to an entry of v
BVals == {0, 1}
WVals == {0, 1}
VVals == {-1, 0, 2}

(***************************************************************************)
(* Array helpers (numpy's @, **, slicing, np.sum, np.diag)                 *)
(***************************************************************************)
\* np.sum of a 1-D array
RECURSIVE SumTo(_, _)
SumTo(s, n) == IF n = 0 THEN 0 ELSE s[n] + SumTo(s, n - 1)

SumSeq(s) == SumTo(s, Len(s))

\* a @ c for two 1-D arrays
RECURSIVE DotTo(_, _, _)
DotTo(a, c, n) == IF n = 0 THEN 0 ELSE a[n] * c[n] + DotTo(a, c, n - 1)

Dot(a, c) == DotTo(a, c, Len(a))

\* a @ m[:, k] for a 1-D array a and a 2-D array m
RECURSIVE DotColTo(_, _, _, _)
DotColTo(a, m, k, n) == IF n = 0 THEN 0 ELSE a[n] * m[n][k] + DotColTo(a, m, k, n - 1)

DotCol(a, m, k) == DotColTo(a, m, k, Len(a))

\* (a ** 2) @ (m[:, k] ** 2)
RECURSIVE SqDotColTo(_, _, _, _)
SqDotColTo(a, m, k, n) ==
    IF n = 0 THEN 0 ELSE (a[n] * a[n]) * (m[n][k] * m[n][k]) + SqDotColTo(a, m, k, n - 1)

SqDotCol(a, m, k) == SqDotColTo(a, m, k, Len(a))

\* all sequences of length n over S
SeqsOf(S, n) == [1..n -> S]

\* all D x N arrays over S with 1 <= D <= maxd
Batches(S, maxd) == UNION {SeqsOf(SeqsOf(S, N), d) : d \in 1..maxd}

(***************************************************************************)
(* FactorizationMachines                                                   *)
(***************************************************************************)
\* 0.5 * z; z is an even integer in predict (twice the pairwise sum)
Half(z) == z \div 2

\* x.reshape(1, -1) when x.ndim == 1
reshape(xin) == IF xin.ndim = 1 THEN <<xin.data>> ELSE xin.data

\* the value predict returns: a Python float (shape ()) or an ndarray (shape (D,))
Float(r) == [kind |-> "float", val |-> <<r>>]
NdArray(a) == [kind |-> "ndarray", val |-> a]

\* z ** 2 for a scalar
Square(z) == z * z

\* np.sum((x @ v) ** 2 - (x ** 2) @ (v ** 2), axis=1), for one row of x
inter_sum(row, vv) ==
    SumSeq([k \in 1..K |-> Square(DotCol(row, vv, k)) - SqDotCol(row, vv, k)])

\* if result.shape[0] == 1: return float(result[0]); return result
float_or_result(result) == IF Len(result) = 1 THEN Float(result[1]) ELSE NdArray(result)

\* predict with np.sum(...) over the whole array instead of axis=1
predict_no_axis(prm, xin) ==
    float_or_result([d \in 1..Len(reshape(xin)) |->
        prm.b + Dot(reshape(xin)[d], prm.w)
          + Half(SumSeq([e \in 1..Len(reshape(xin)) |-> inter_sum(reshape(xin)[e], prm.v)]))])

\* predict without the factor 0.5 of the interaction term
predict_no_half(prm, xin) ==
    float_or_result([d \in 1..Len(reshape(xin)) |->
        prm.b + Dot(reshape(xin)[d], prm.w) + inter_sum(reshape(xin)[d], prm.v)])

\* FactorizationMachines.predict; prm is self.params
\* (result = bias + linear + inter, row by row)
predict(prm, xin) ==
    float_or_result([d \in 1..Len(reshape(xin)) |->
        prm.b + Dot(reshape(xin)[d], prm.w) + Half(inter_sum(reshape(xin)[d], prm.v))])

\* a 1-D and a 2-D argument of predict
Vector(row) == [ndim |-> 1, data |-> row]
Matrix(rows) == [ndim |-> 2, data |-> rows]

calc_h_b(xs) == [d \in 1..Len(xs) |-> 1]

calc_h_w(xs, i) == [d \in 1..Len(xs) |-> xs[d][i]]

\* calc_h_v without the "- x[:, i] * v[i, k]" term
calc_h_v_whole_q(xs, vv, i, k) ==
    [d \in 1..Len(xs) |-> xs[d][i] * DotCol(xs[d], vv, k)]

calc_h_v(xs, vv, i, k) ==
    [d \in 1..Len(xs) |-> xs[d][i] * (DotCol(xs[d], vv, k) - xs[d][i] * vv[i][k])]

\* p * h - f, the sign of the markdown cell
calc_g_theta_h_minus_f(fv, h, p) == [d \in 1..Len(h) |-> p * h[d] - fv.val[d]]

\* f - h * p, f broadcast against h
calc_g(fv, h, p) == [d \in 1..Len(h) |-> fv.val[d] - h[d] * p]

\* calc_df with the size of the change, whatever its sign
calc_df_magnitude(h, p_new, p_old) ==
    [d \in 1..Len(h) |-> (IF p_new >= p_old THEN p_new - p_old ELSE p_old - p_new) * h[d]]

\* calc_df subtracting the old value twice
calc_df_old_twice(h, p_new, p_old) == [d \in 1..Len(h) |-> (p_new - 2 * p_old) * h[d]]

\* calc_df ignoring the old value
calc_df_no_old(h, p_new, p_old) == [d \in 1..Len(h) |-> p_new * h[d]]

\* calc_df with the difference taken the wrong way round
calc_df_swapped(h, p_new, p_old) == [d \in 1..Len(h) |-> (p_old - p_new) * h[d]]

calc_df(h, p_new, p_old) == [d \in 1..Len(h) |-> (p_new - p_old) * h[d]]

calc_q_init(xs, vv) == [d \in 1..Len(xs) |-> [k \in 1..K |-> DotCol(xs[d], vv, k)]]

\* calc_dq adding the old value where it is subtracted
calc_dq_sum(xs, v_ik_new, vv, i, k) ==
    [d \in 1..Len(xs) |-> (v_ik_new + vv[i][k]) * xs[d][i]]

\* calc_dq ignoring the old value
calc_dq_no_old(xs, v_ik_new, vv, i, k) == [d \in 1..Len(xs) |-> v_ik_new * xs[d][i]]

\* calc_dq adding the change twice
calc_dq_double(xs, v_ik_new, vv, i, k) ==
    [d \in 1..Len(xs) |-> 2 * (v_ik_new - vv[i][k]) * xs[d][i]]

\* calc_dq reading column k of x instead of column i
calc_dq_wrong_col(xs, v_ik_new, vv, i, k) ==
    [d \in 1..Len(xs) |-> (v_ik_new - vv[i][k]) * xs[d][k]]

calc_dq(xs, v_ik_new, vv, i, k) == [d \in 1..Len(xs) |-> (v_ik_new - vv[i][k]) * xs[d][i]]

\* calc_h_v_fast using the whole projection q[:, k]
calc_h_v_fast_whole_q(xs, vv, qq, i, k) ==
    [d \in 1..Len(xs) |-> xs[d][i] * qq[d][k]]

\* calc_h_v_fast recomputing x @ v[:, k] from v and not reading q
calc_h_v_fast_recompute(xs, vv, qq, i, k) == calc_h_v(xs, vv, i, k)

calc_h_v_fast(xs, vv, qq, i, k) ==
    [d \in 1..Len(xs) |-> xs[d][i] * (qq[d][k] - xs[d][i] * vv[i][k])]

\* f += df: a float plus an array of shape (1,) is an array of shape (1,)
AddF(fv, df) == NdArray([d \in 1..Len(df) |-> fv.val[d] + df[d]])

\* q[:, :] += dq[:, None], every column
AddQAll(qq, k, dq) == [d \in 1..Len(qq) |-> [kk \in 1..Len(qq[d]) |-> qq[d][kk] + dq[d]]]

\* dq added to the column after k
AddQNextCol(qq, k, dq) ==
    [d \in 1..Len(qq) |-> [qq[d] EXCEPT ![(k % Len(qq[d])) + 1] = @ + dq[d]]]

\* q[:, k] += dq
AddQCol(qq, k, dq) == [d \in 1..Len(qq) |-> [qq[d] EXCEPT ![k] = @ + dq[d]]]

params == [b |-> b, w |-> w, v |-> v]

(***************************************************************************)
(* The update sweep: one scalar parameter at a time                        *)
(***************************************************************************)
Init ==
    /\ x \in Batches(XVals, MaxD)
    /\ b = 0
    /\ w \in SeqsOf(WInitVals, N)
    /\ v \in SeqsOf(SeqsOf(VInitVals, K), N)
    /\ f = predict([b |-> b, w |-> w, v |-> v], Matrix(x))
    /\ q = calc_q_init(x, v)
    /\ y_data = None /\ it = 0 /\ ret = None /\ loc = None /\ pc = "sweep"
    /\ GsIdle

UpdateB(b_new) ==
    LET h == calc_h_b(x) IN
    /\ f' = AddF(f, calc_df(h, b_new, b))
    /\ b' = b_new
    /\ UNCHANGED <<x, w, v, q>>
    /\ UNCHANGED <<loopVars, pc, gsVars>>

UpdateW(i, w_new) ==
    LET h == calc_h_w(x, i) IN
    /\ f' = AddF(f, calc_df(h, w_new, w[i]))
    /\ w' = [w EXCEPT ![i] = w_new]
    /\ UNCHANGED <<x, b, v, q>>
    /\ UNCHANGED <<loopVars, pc, gsVars>>

UpdateV(i, k, v_ik_new) ==
    LET h == calc_h_v_fast(x, v, q, i, k) IN
    /\ f' = AddF(f, calc_df(h, v_ik_new, v[i][k]))
    /\ q' = AddQCol(q, k, calc_dq(x, v_ik_new, v, i, k))
    /\ v' = [v EXCEPT ![i][k] = v_ik_new]
    /\ UNCHANGED <<x, b, w>>
    /\ UNCHANGED <<loopVars, pc, gsVars>>

Next ==
    \/ \E c \in BVals : UpdateB(c)
    \/ \E i \in 1..N, c \in WVals : UpdateW(i, c)
    \/ \E i \in 1..N, k \in 1..K, c \in VVals : UpdateV(i, k, c)

Spec == Init /\ [][Next]_vars

\* the scorer's state (parameters and caches) as one value, and the state
\* the three updates above lead to from it
scorer == [b |-> b, w |-> w, v |-> v, f |-> f, q |-> q]

update_b(st, b_new) ==
    [st EXCEPT !.f = AddF(st.f, calc_df(calc_h_b(x), b_new, st.b)),
               !.b = b_new]

update_w(st, i, w_new) ==
    [st EXCEPT !.f = AddF(st.f, calc_df(calc_h_w(x, i), w_new, st.w[i])),
               !.w[i] = w_new]

update_v(st, i, k, v_ik_new) ==
    [st EXCEPT !.f = AddF(st.f, calc_df(calc_h_v_fast(x, st.v, st.q, i, k),
                                        v_ik_new, st.v[i][k])),
               !.q = AddQCol(st.q, k, calc_dq(x, v_ik_new, st.v, i, k)),
               !.v[i][k] = v_ik_new]

(***************************************************************************)
(* fast_updates(iter, fm, x_data, y_data) of the first notebook: iter      *)
(* updates of v[0, 0] (v[1][1] here), each by -100                         *)
(***************************************************************************)
\* calc_dq(i, x, v_ik_new, v_ik_old) of the first notebook
calc_dq_nb1(i, xs, v_ik_new, v_ik_old) ==
    [d \in 1..Len(xs) |-> (v_ik_new - v_ik_old) * xs[d][i]]

\* calc_xy_b: the pair (x_b, y_b)
calc_xy_b(fv, bb, x_data, ys) ==
    LET x_b == [d \in 1..Len(x_data) |-> 1]
    IN  <<x_b, [d \in 1..Len(x_data) |-> ys[d] - (fv.val[d] - bb * x_b[d])]>>

\* calc_xy_w: the pair (x_w, y_w)
calc_xy_w(fv, ww, x_data, ys, i) ==
    LET x_w == [d \in 1..Len(x_data) |-> x_data[d][i]]
    IN  <<x_w, [d \in 1..Len(x_data) |-> ys[d] - (fv.val[d] - x_w[d] * ww[i])]>>

\* calc_xy_v_naive: the pair (x_v, y_v), x_v from x_data @ v[:, k]
calc_xy_v_naive(fv, vv, x_data, ys, i, k) ==
    LET x_v == [d \in 1..Len(x_data) |->
                  x_data[d][i] * (DotCol(x_data[d], vv, k) - x_data[d][i] * vv[i][k])]
    IN  <<x_v, [d \in 1..Len(x_data) |-> ys[d] - (fv.val[d] - x_v[d] * vv[i][k])]>>

\* calc_xy_v with x_v = x_data[:, i] * q[:, k]
calc_xy_v_whole_q(fv, qq, vv, x_data, ys, i, k) ==
    LET x_v == [d \in 1..Len(x_data) |-> x_data[d][i] * qq[d][k]]
    IN  <<x_v, [d \in 1..Len(x_data) |-> ys[d] - (fv.val[d] - x_v[d] * vv[i][k])]>>

\* calc_xy_v: the pair (x_v, y_v)
calc_xy_v(fv, qq, vv, x_data, ys, i, k) ==
    LET x_v == [d \in 1..Len(x_data) |->
                  x_data[d][i] * (qq[d][k] - x_data[d][i] * vv[i][k])]
    IN  <<x_v, [d \in 1..Len(x_data) |-> ys[d] - (fv.val[d] - x_v[d] * vv[i][k])]>>

\* v = fm.params['v']; f = fm.predict(x_data); q = calc_q_init(x_data, v)
InitFast ==
    /\ x \in Batches(XVals, MaxD)
    /\ \E y \in YVals : y_data = [d \in 1..Len(x) |-> y]
    /\ b = 0
    /\ w \in SeqsOf(WInitVals, N)
    /\ v \in SeqsOf(SeqsOf(VInitVals, K), N)
    /\ f = predict([b |-> b, w |-> w, v |-> v], Matrix(x))
    /\ q = calc_q_init(x, v)
    /\ it = 0 /\ ret = None /\ loc = None /\ pc = "loop"
    /\ GsIdle

\* one pass of the body of: for _ in range(iter)
FastIteration ==
    /\ pc = "loop" /\ it < MaxIter
    /\ LET v_ik_new == v[1][1] - Step IN
         /\ ret' = calc_xy_v(f, q, v, x, y_data, 1, 1)
         /\ q' = AddQCol(q, 1, calc_dq_nb1(1, x, v_ik_new, v[1][1]))
         /\ v' = [v EXCEPT ![1][1] = v_ik_new]
    /\ it' = it + 1
    /\ UNCHANGED <<x, b, w, f, y_data, loc, pc, gsVars>>

\* return x
FastReturn ==
    /\ pc = "loop" /\ it = MaxIter
    /\ pc' = "done"
    /\ UNCHANGED <<x, b, w, v, f, q, y_data, it, ret, loc, gsVars>>

NextFast == FastIteration \/ FastReturn

SpecFast == InitFast /\ [][NextFast]_vars

(***************************************************************************)
(* Single calls of the operations on arrays of any shape.                  *)
(*                                                                         *)
(* The notebooks' functions check nothing themselves: a call is rejected   *)
(* exactly when numpy rejects one of its operations (a @ of unequal inner  *)
(* dimensions, an index out of range, operands that do not broadcast).     *)
(***************************************************************************)
\* the shape of a 2-D array
Rows(a) == Len(a)
Cols(a) == Len(a[1])

\* an array of the given shape with every entry c
Filled(c, rows, cols) == [r \in 1..rows |-> [j \in 1..cols |-> c]]

\* numpy broadcasting of two 1-D shapes: equal, or one of them 1
broadcast_ok(n, m) == n = m \/ n = 1 \/ m = 1
broadcast_len(n, m) == IF n >= m THEN n ELSE m

\* an array of one row seen as an array of n rows
broadcast_to(a, n) == IF Len(a) = 1 THEN [d \in 1..n |-> a[1]] ELSE a

\* in-place a += c: c must broadcast to the shape of a
inplace_ok(na, nc) == nc = na \/ nc = 1

\* how a call ends: with a value (a float, an ndarray or None) or an exception
Returned(val) == [raised |-> FALSE, val |-> val]
Raised(exc) == [raised |-> TRUE, val |-> [kind |-> exc, val |-> <<>>]]
NoneValue == [kind |-> "None", val |-> <<>>]

\* fm.predict(xin): x @ w and x @ v raise ValueError on unequal inner dimensions
call_predict(prm, xin) ==
    IF Cols(reshape(xin)) = Len(prm.w) /\ Cols(reshape(xin)) = Rows(prm.v)
    THEN Returned(predict(prm, xin)) ELSE Raised("ValueError")

\* calc_q_init(x, v)
call_calc_q_init(xs, vv) ==
    IF Cols(xs) = Rows(vv) THEN Returned(NdArray(calc_q_init(xs, vv))) ELSE Raised("ValueError")

\* calc_dq(x, v_ik_new, v, i, k): only v[i, k] and x[:, i] are read
call_calc_dq(xs, v_ik_new, vv, i, k) ==
    IF i <= Rows(vv) /\ k <= Cols(vv) /\ i <= Cols(xs)
    THEN Returned(NdArray(calc_dq(xs, v_ik_new, vv, i, k))) ELSE Raised("IndexError")

\* calc_h_v_fast(x, v, q, i, k): x[:, i] and q[:, k] are broadcast together
call_calc_h_v_fast(xs, vv, qq, i, k) ==
    IF ~(i <= Cols(xs) /\ k <= Cols(qq) /\ i <= Rows(vv) /\ k <= Cols(vv))
    THEN Raised("IndexError")
    ELSE IF ~broadcast_ok(Rows(xs), Rows(qq)) THEN Raised("ValueError")
    ELSE LET n == broadcast_len(Rows(xs), Rows(qq))
         IN  Returned(NdArray(calc_h_v_fast(broadcast_to(xs, n), vv, broadcast_to(qq, n), i, k)))

\* arrays of any shape handed to the operations
CallXs == UNION {SeqsOf(SeqsOf(XVals, n), d) : n \in 1..N, d \in 1..MaxD}
CallWs == {[j \in 1..n |-> 1] : n \in 1..N}
CallVs == {Filled(c, n, K) : c \in {-1, 2}, n \in 1..N}
CallQs == {Filled(c, d, K) : c \in {0, 1}, d \in 1..MaxD}

InitCall ==
    /\ x \in CallXs
    /\ b = 0
    /\ w \in CallWs
    /\ v \in CallVs
    /\ q \in CallQs
    /\ f = NdArray([d \in 1..Rows(q) |-> q[d][1]])
    /\ y_data = None /\ it = 0 /\ ret = None /\ loc = None
    /\ pc = "call"
    /\ GsIdle

\* the end of a call: its value, or the exception it raised
Finish(op, outcome) ==
    /\ ret' = [op |-> op, val |-> outcome.val]
    /\ pc' = IF outcome.raised THEN "raised" ELSE "returned"

\* predict may be called again after it returned or raised
CanPredict == pc = "call" \/ (pc \in {"returned", "raised"} /\ ret.op = "predict")

\* the caller's array after "x = x.reshape(1, -1)" with a 1-D x, reshaped in place
reshape_in_place(xin) == Matrix(reshape(xin))

\* the caller's array after "x = x.reshape(1, -1)": reshape returns a new array
\* and the assignment rebinds the local name only
caller_array(xin) == xin

\* y = fm.predict(x) for the batch x; loc is the caller's array after the call
CallPredictBatch ==
    /\ CanPredict
    /\ Finish("predict", call_predict(params, Matrix(x)))
    /\ loc' = caller_array(Matrix(x))
    /\ UNCHANGED <<fmVars, y_data, it, gsVars>>

\* y = fm.predict(x[d]) for one row of x; loc is the caller's array after the call
CallPredictRow(d) ==
    /\ CanPredict
    /\ Finish("predict", call_predict(params, Vector(x[d])))
    /\ loc' = caller_array(Vector(x[d]))
    /\ UNCHANGED <<fmVars, y_data, it, gsVars>>

CallCalcQInit ==
    /\ pc = "call"
    /\ Finish("calc_q_init", call_calc_q_init(x, v))
    /\ UNCHANGED <<fmVars, y_data, it, loc, gsVars>>

CallCalcDq(i, k, v_ik_new) ==
    /\ pc = "call"
    /\ Finish("calc_dq", call_calc_dq(x, v_ik_new, v, i, k))
    /\ UNCHANGED <<fmVars, y_data, it, loc, gsVars>>

CallCalcHVFast(i, k) ==
    /\ pc = "call"
    /\ Finish("calc_h_v_fast", call_calc_h_v_fast(x, v, q, i, k))
    /\ UNCHANGED <<fmVars, y_data, it, loc, gsVars>>

\* the update of v[i, k]: h = calc_h_v_fast(...); f += calc_df(h, new, old);
\* q[:, k] += calc_dq(...); v[i, k] = new
CallUpdate(i, k, v_ik_new) ==
    /\ pc = "call"
    /\ LET h  == call_calc_h_v_fast(x, v, q, i, k)
           dq == call_calc_dq(x, v_ik_new, v, i, k)
       IN  IF h.raised
           THEN Finish("update", h) /\ UNCHANGED <<f, q, v>>
           ELSE IF ~inplace_ok(Len(f.val), Len(h.val.val)) \/ ~inplace_ok(Rows(q), Len(dq.val.val))
           THEN Finish("update", Raised("ValueError")) /\ UNCHANGED <<f, q, v>>
           ELSE /\ f' = AddF(f, broadcast_to(calc_df(h.val.val, v_ik_new, v[i][k]), Len(f.val)))
                /\ q' = AddQCol(q, k, broadcast_to(dq.val.val, Rows(q)))
                /\ v' = [v EXCEPT ![i][k] = v_ik_new]
                /\ Finish("update", Returned(NoneValue))
    /\ UNCHANGED <<x, b, w, y_data, it, loc, gsVars>>

NextCall ==
    \/ CallPredictBatch
    \/ \E d \in 1..Len(x) : CallPredictRow(d)
    \/ CallCalcQInit
    \/ \E i \in 1..N, k \in 1..K, c \in VVals : CallCalcDq(i, k, c)
    \/ \E i \in 1..N, k \in 1..K : CallCalcHVFast(i, k)
    \/ \E i \in 1..N, k \in 1..K, c \in VVals : CallUpdate(i, k, c)

SpecCall == InitCall /\ [][NextCall]_vars

\* the arrays an operation takes
ArgsOf(op) ==
    CASE op = "predict"       -> {"x", "w", "v"}
      [] op = "calc_q_init"   -> {"x", "v"}
      [] op = "calc_dq"       -> {"x", "v"}
      [] op = "calc_h_v_fast" -> {"x", "v", "q"}
      [] op = "update"        -> {"x", "v", "q"}

\* those of x (D x N), w (N), v (N x K) and q (D x K) that the operation takes
\* have consistent dimensions
ConsistentShapes(op) ==
    /\ {"x", "w"} \subseteq ArgsOf(op) => Cols(x) = Len(w)
    /\ {"x", "v"} \subseteq ArgsOf(op) => Cols(x) = Rows(v)
    /\ {"x", "q"} \subseteq ArgsOf(op) => Rows(q) = Rows(x)
    /\ {"v", "q"} \subseteq ArgsOf(op) => Cols(q) = Cols(v)

(***************************************************************************)
(* fast_updates(iter, x) of the second notebook, statement by statement.   *)
(*                                                                         *)
(* loc holds its locals h and v_ik_new (0 before its first assignment)     *)
(* and the number of calls of calc_q_init made so far.                     *)
(***************************************************************************)
InitSteps ==
    /\ x \in Batches(XVals, MaxD)
    /\ b = 0
    /\ w \in SeqsOf(WInitVals, N)
    /\ v \in SeqsOf(SeqsOf(VInitVals, K), N)
    /\ f = None /\ q = None
    /\ loc = [h |-> None, v_ik_new |-> 0, q_inits |-> 0]
    /\ y_data = None /\ it = 0 /\ ret = None /\ pc = "q_init"
    /\ GsIdle

\* q = calc_q_init(x, v)
StepQInit ==
    /\ pc = "q_init"
    /\ q' = calc_q_init(x, v)
    /\ loc' = [loc EXCEPT !.q_inits = @ + 1]
    /\ pc' = IF it < MaxIter THEN "h" ELSE "return"
    /\ UNCHANGED <<x, b, w, v, f, y_data, it, ret, gsVars>>

\* h = calc_h_v_fast(x, v, q, 0, 0)
StepH ==
    /\ pc = "h"
    /\ loc' = [loc EXCEPT !.h = calc_h_v_fast(x, v, q, 1, 1)]
    /\ pc' = "v_ik_new"
    /\ UNCHANGED <<fmVars, y_data, it, ret, gsVars>>

\* v_ik_new = v[0, 0] - 100
StepVNew ==
    /\ pc = "v_ik_new"
    /\ loc' = [loc EXCEPT !.v_ik_new = v[1][1] - Step]
    /\ pc' = "dq"
    /\ UNCHANGED <<fmVars, y_data, it, ret, gsVars>>

\* q[:, 0] += calc_dq(x, v_ik_new, v, 0, 0)
StepDq ==
    /\ pc = "dq"
    /\ q' = AddQCol(q, 1, calc_dq(x, loc.v_ik_new, v, 1, 1))
    /\ pc' = "commit"
    /\ UNCHANGED <<x, b, w, v, f, y_data, it, ret, loc, gsVars>>

\* v[0, 0] = v_ik_new, and the next pass of: for _ in range(iter)
StepCommit ==
    /\ pc = "commit"
    /\ v' = [v EXCEPT ![1][1] = loc.v_ik_new]
    /\ it' = it + 1
    /\ pc' = IF it + 1 < MaxIter THEN "h" ELSE "return"
    /\ UNCHANGED <<x, b, w, f, q, y_data, ret, loc, gsVars>>

\* return h
StepReturn ==
    /\ pc = "return"
    /\ ret' = loc.h
    /\ pc' = "done"
    /\ UNCHANGED <<fmVars, y_data, it, loc, gsVars>>

NextSteps == StepQInit \/ StepH \/ StepVNew \/ StepDq \/ StepCommit \/ StepReturn

SpecSteps == InitSteps /\ [][NextSteps]_vars

(***************************************************************************)
(* Two updaters on one shared (f, q, v), without synchronization.          *)
(*                                                                         *)
(* Each updater runs the statements of one update of v[i, k]:              *)
(*     h = calc_h_v_fast(x, v, q, i, k)                                    *)
(*     q[:, k] += calc_dq(x, v_ik_new, v, i, k)                            *)
(*     f += calc_df(h, v_ik_new, v[i, k])                                  *)
(*     v[i, k] = v_ik_new                                                  *)
(* one statement at a time; loc.upd[p] holds the locals of updater p and   *)
(* loc.overlapped tells whether the two sequences ever overlapped.         *)
(***************************************************************************)
Updaters == {1, 2}

\* the values the updaters give to v[i, k]
ConcNewVals == {-1, 2}

IdleUpdater == [pc |-> "idle", i |-> 0, k |-> 0, v_ik_new |-> 0, h |-> <<>>]

\* an updater between its first and its last statement
Running(p) == loc.upd[p].pc \in {"dq", "df", "commit"}

InitConc ==
    /\ x \in Batches(XVals, MaxD)
    /\ b = 0
    /\ \E c \in WInitVals : w = [i \in 1..N |-> c]
    /\ \E c \in VInitVals : v = Filled(c, N, K)
    /\ f = predict([b |-> b, w |-> w, v |-> v], Matrix(x))
    /\ q = calc_q_init(x, v)
    /\ loc = [upd |-> [p \in Updaters |-> IdleUpdater], overlapped |-> FALSE]
    /\ y_data = None /\ it = 0 /\ ret = None /\ pc = "updaters"
    /\ GsIdle

\* h = calc_h_v_fast(x, v, q, i, k), with the new value already sampled
ConcH(p, i, k, v_ik_new) ==
    /\ loc.upd[p].pc = "idle"
    /\ loc' = [upd |-> [loc.upd EXCEPT ![p] =
                          [pc |-> "dq", i |-> i, k |-> k, v_ik_new |-> v_ik_new,
                           h |-> calc_h_v_fast(x, v, q, i, k)]],
               overlapped |-> loc.overlapped \/ \E o \in Updaters \ {p} : Running(o)]
    /\ UNCHANGED <<fmVars, y_data, it, ret, pc, gsVars>>

\* q[:, k] += calc_dq(x, v_ik_new, v, i, k)
ConcDq(p) ==
    LET me == loc.upd[p] IN
    /\ me.pc = "dq"
    /\ q' = AddQCol(q, me.k, calc_dq(x, me.v_ik_new, v, me.i, me.k))
    /\ loc' = [loc EXCEPT !.upd[p].pc = "df"]
    /\ UNCHANGED <<x, b, w, v, f, y_data, it, ret, pc, gsVars>>

\* f += calc_df(h, v_ik_new, v[i, k])
ConcDf(p) ==
    LET me == loc.upd[p] IN
    /\ me.pc = "df"
    /\ f' = AddF(f, calc_df(me.h, me.v_ik_new, v[me.i][me.k]))
    /\ loc' = [loc EXCEPT !.upd[p].pc = "commit"]
    /\ UNCHANGED <<x, b, w, v, q, y_data, it, ret, pc, gsVars>>

\* v[i, k] = v_ik_new
ConcCommit(p) ==
    LET me == loc.upd[p] IN
    /\ me.pc = "commit"
    /\ v' = [v EXCEPT ![me.i][me.k] = me.v_ik_new]
    /\ loc' = [loc EXCEPT !.upd[p].pc = "done"]
    /\ UNCHANGED <<x, b, w, f, q, y_data, it, ret, pc, gsVars>>

NextConc ==
    \E p \in Updaters :
        \/ \E i \in 1..N, k \in 1..K, c \in ConcNewVals : ConcH(p, i, k, c)
        \/ ConcDq(p)
        \/ ConcDf(p)
        \/ ConcCommit(p)

SpecConc == InitConc /\ [][NextConc]_vars

(***************************************************************************)
(* sample_gaussian_efficient(Phi, alpha, Delta, seed)                      *)
(*                                                                         *)
(* The solution w of the linear system, and theta with it, are rationals:  *)
(* a vector of rationals is [num |-> integers, den |-> the common          *)
(* denominator].                                                           *)
(***************************************************************************)
\* np.sqrt on a perfect square
RECURSIVE SqrtFrom(_, _)
SqrtFrom(z, r) == IF r * r >= z THEN r ELSE SqrtFrom(z, r + 1)

np_sqrt(z) == SqrtFrom(z, 0)

\* np.diag putting the entries on the diagonal in reverse order
np_diag_reversed(a) ==
    [i \in 1..Len(a) |-> [j \in 1..Len(a) |-> IF i = j THEN a[Len(a) + 1 - i] ELSE 0]]

\* np.diag of a 1-D array
np_diag(a) == [i \in 1..Len(a) |-> [j \in 1..Len(a) |-> IF i = j THEN a[i] ELSE 0]]

\* np.zeros((n, n)) in the place of np.eye(n)
np_zeros_square(n) == [i \in 1..n |-> [j \in 1..n |-> 0]]

\* np.eye(n)
np_eye(n) == [i \in 1..n |-> [j \in 1..n |-> IF i = j THEN 1 ELSE 0]]

\* m @ c.T for two 2-D arrays whose rows have the same length
MatMulT(m, c) == [r \in 1..Len(m) |-> [e \in 1..Len(c) |-> Dot(m[r], c[e])]]

\* the determinant, by expansion along the first row
Minor(m, j) ==
    [r \in 1..(Len(m) - 1) |->
        [c \in 1..(Len(m) - 1) |-> m[r + 1][IF c < j THEN c ELSE c + 1]]]

RECURSIVE Det(_)
Det(m) ==
    IF Len(m) = 1 THEN m[1][1]
    ELSE SumSeq([j \in 1..Len(m) |->
            IF m[1][j] = 0 THEN 0
            ELSE (IF j % 2 = 1 THEN 1 ELSE -1) * m[1][j] * Det(Minor(m, j))])

\* m with column j replaced by the 1-D array a
WithCol(m, j, a) == [r \in 1..Len(m) |-> [m[r] EXCEPT ![j] = a[r]]]

\* np.linalg.solve(m, rhs): the solution of m @ w = rhs (Cramer's rule)
linalg_solve(m, rhs) ==
    [num |-> [j \in 1..Len(m) |-> Det(WithCol(m, j, rhs))], den |-> Det(m)]

\* the matrix of the system without the identity
system_matrix_no_eye(Ph, De) ==
    LET PD == [r \in 1..Len(Ph) |-> [j \in 1..Len(De) |->
                  SumSeq([i \in 1..Len(De) |-> Ph[r][i] * De[i][j]])]]
    IN  MatMulT(PD, Ph)

\* Phi @ Delta @ Phi.T + np.eye(D), Delta a 2-D array
system_matrix(Ph, De) ==
    LET PD == [r \in 1..Len(Ph) |-> [j \in 1..Len(De) |->
                  SumSeq([i \in 1..Len(De) |-> Ph[r][i] * De[i][j]])]]
        G  == MatMulT(PD, Ph)
    IN  [r \in 1..Len(Ph) |-> [e \in 1..Len(Ph) |-> G[r][e] + np_eye(Len(Ph))[r][e]]]

\* alpha - v, the two broadcast together
residual(al, vv) ==
    LET n == broadcast_len(Len(al), Len(vv))
    IN  [d \in 1..n |-> broadcast_to(al, n)[d] - broadcast_to(vv, n)[d]]

\* u + Delta @ Phi.T @ w, w a vector of rationals
result_theta_no_Delta(uu, De, Ph, ww) ==
    [num |-> [i \in 1..Len(uu) |->
                 ww.den * uu[i] + SumSeq([d \in 1..Len(Ph) |-> Ph[d][i] * ww.num[d]])],
     den |-> ww.den]

\* u + Delta @ Phi.T @ w, over the denominator of w
result_theta(uu, De, Ph, ww) ==
    LET DPt == MatMulT(De, Ph)
    IN  [num |-> [i \in 1..Len(uu) |-> ww.den * uu[i] + Dot(DPt[i], ww.num)],
         den |-> ww.den]

\* the local Delta after "if Delta.ndim == 1: ... Delta = np.diag(Delta)"
local_Delta(De) == IF De.ndim = 1 THEN np_diag(De.data) ELSE De.data

\* rng.normal(Phi @ u, np.ones(D)): the mean plus the standard normal draw eps
sample_v(Ph, uu, ee) == [d \in 1..Len(Ph) |-> Dot(Ph[d], uu) + ee[d]]

\* the outcomes of the draw of u
\*   1-D Delta: rng.normal(np.zeros(N), np.sqrt(Delta)), sqrt(Delta_i) * z_i
\*   2-D Delta: rng.multivariate_normal(np.zeros(N), Delta), any vector
sample_u(De) ==
    IF De.ndim = 1
    THEN {[i \in 1..N |-> np_sqrt(broadcast_to(De.data, N)[i]) * z[i]] : z \in SeqsOf(ZVals, N)}
    ELSE SeqsOf(UVals, N)

\* the checks numpy makes when u is drawn: np.zeros(N) and np.sqrt(Delta)
\* broadcast together; multivariate_normal takes a square cov of the mean's length
draw_u_ok(Ph, De) ==
    IF De.ndim = 1 THEN broadcast_ok(Cols(Ph), Len(De.data))
    ELSE Rows(De.data) = Cols(De.data) /\ Rows(De.data) = Cols(Ph)

\* the checks numpy makes in the solve line: the inner dimensions of
\* Phi @ Delta @ Phi.T, the broadcast of alpha - v, the length of the right side
solve_shapes_ok(Ph, De, al, vv) ==
    /\ Cols(Ph) = Rows(De) /\ Cols(De) = Cols(Ph)
    /\ broadcast_ok(Len(al), Len(vv))
    /\ broadcast_len(Len(al), Len(vv)) = Rows(Ph)

\* np.linalg.solve raises LinAlgError("Singular matrix")
singular(m) == Det(m) = 0

\* symmetric positive definite arguments Delta: a 1-D array of positive
\* entries, the same as a diagonal matrix, and one matrix that is not diagonal
Deltas ==
    {Vector(a) : a \in SeqsOf(DeltaVals, N)}
      \cup {Matrix(np_diag(a)) : a \in SeqsOf(DeltaVals, N)}
      \cup {Matrix([i \in 1..N |-> [j \in 1..N |-> IF i = j THEN 2 ELSE 1]])}

InitGauss ==
    /\ Phi \in Batches(PhiVals, MaxD)
    /\ alpha \in SeqsOf(AlphaVals, Len(Phi))
    /\ Delta \in Deltas
    /\ DeltaL = Delta
    /\ u = None /\ eps = None /\ sv = None /\ sw = None /\ theta = None
    /\ pc = "sample_u"
    /\ FmIdle

\* Sample u from N(0, Delta)
SampleU ==
    /\ pc = "sample_u"
    /\ IF draw_u_ok(Phi, Delta)
       THEN /\ u' \in sample_u(Delta)
            /\ DeltaL' = Matrix(local_Delta(Delta))
            /\ pc' = "sample_v"
       ELSE pc' = "ValueError" /\ UNCHANGED <<u, DeltaL>>
    /\ UNCHANGED <<Phi, alpha, Delta, eps, sv, sw, theta, fmVars, loopVars>>

\* Sample v from N(Phi @ u, I)
SampleV ==
    /\ pc = "sample_v"
    /\ \E e \in EpsVals : eps' = [d \in 1..Len(Phi) |-> e]
    /\ sv' = sample_v(Phi, u, eps')
    /\ pc' = "solve"
    /\ UNCHANGED <<Phi, alpha, Delta, DeltaL, u, sw, theta, fmVars, loopVars>>

\* Solve for w
SolveW ==
    /\ pc = "solve"
    /\ IF ~solve_shapes_ok(Phi, DeltaL.data, alpha, sv)
       THEN pc' = "ValueError" /\ UNCHANGED sw
       ELSE IF singular(system_matrix(Phi, DeltaL.data))
       THEN pc' = "LinAlgError" /\ UNCHANGED sw
       ELSE /\ sw' = linalg_solve(system_matrix(Phi, DeltaL.data), residual(alpha, sv))
            /\ pc' = "return"
    /\ UNCHANGED <<Phi, alpha, Delta, DeltaL, u, eps, sv, theta, fmVars, loopVars>>

\* return u + Delta @ Phi.T @ w
ReturnTheta ==
    /\ pc = "return"
    /\ theta' = result_theta(u, DeltaL.data, Phi, sw)
    /\ pc' = "done"
    /\ UNCHANGED <<Phi, alpha, Delta, DeltaL, u, eps, sv, sw, fmVars, loopVars>>

NextGauss == SampleU \/ SampleV \/ SolveW \/ ReturnTheta

SpecGauss == InitGauss /\ [][NextGauss]_vars

\* arguments of any shape: alpha of any length, and a Delta that is positive
\* definite, or has a zero on its diagonal, or is indefinite, or has another size
AlphasAny == {[d \in 1..n |-> c] : c \in AlphaVals, n \in 1..MaxD}

DeltasAny ==
    Deltas
      \cup {Vector(a) : a \in SeqsOf({0, 1}, N)}
      \cup {Vector([i \in 1..n |-> 1]) : n \in {1, N + 1}}
      \cup {Matrix(np_diag(a)) : a \in SeqsOf({-1, 0, 1}, N)}
      \cup {Matrix([i \in 1..N |-> [j \in 1..N |-> IF i = j THEN 1 ELSE 2]])}
      \cup {Matrix(Filled(1, r, c)) : r \in {1, N}, c \in {1}}

InitGaussAny ==
    /\ Phi \in Batches(PhiVals, MaxD)
    /\ alpha \in AlphasAny
    /\ Delta \in DeltasAny
    /\ DeltaL = Delta
    /\ u = None /\ eps = None /\ sv = None /\ sw = None /\ theta = None
    /\ pc = "sample_u"
    /\ FmIdle

SpecGaussAny == InitGaussAny /\ [][NextGauss]_vars

\* a matrix is symmetric positive definite: its leading principal minors are positive
LeadingBlock(m, n) == [r \in 1..n |-> [c \in 1..n |-> m[r][c]]]

IsSPD(m) ==
    /\ \A r \in 1..Len(m), c \in 1..Len(m) : m[r][c] = m[c][r]
    /\ \A n \in 1..Len(m) : Det(LeadingBlock(m, n)) > 0

\* Phi (D x N), alpha (D) and Delta (N, or N x N) have consistent dimensions
GaussShapesConsistent ==
    /\ Len(alpha) = Rows(Phi)
    /\ IF Delta.ndim = 1 THEN Len(Delta.data) = Cols(Phi)
       ELSE Rows(Delta.data) = Cols(Phi) /\ Cols(Delta.data) = Cols(Phi)

\* the argument Delta is positive definite
DeltaIsPD ==
    IF Delta.ndim = 1 THEN \A i \in 1..Len(Delta.data) : Delta.data[i] > 0
    ELSE Rows(Delta.data) = Cols(Delta.data) /\ IsSPD(Delta.data)

\* what the sampler returns for the arguments and the draws u and eps
sampler_theta(Ph, al, De, uu, ee) ==
    result_theta(uu, local_Delta(De), Ph,
        linalg_solve(system_matrix(Ph, local_Delta(De)),
                     residual(al, sample_v(Ph, uu, ee))))

\* det(Delta) * inv(Delta), column j being the solution of Delta c = e_j
adjugate(De) ==
    [i \in 1..Len(De) |-> [j \in 1..Len(De) |->
        linalg_solve(De, np_eye(Len(De))[j]).num[i]]]

\* det(Delta) * (Phi.T @ Phi + inv(Delta)), the matrix that V inverts
precision(Ph, De) ==
    LET adj == adjugate(De)
    IN  [i \in 1..Len(De) |-> [j \in 1..Len(De) |->
            Det(De) * SumSeq([d \in 1..Len(Ph) |-> Ph[d][i] * Ph[d][j]]) + adj[i][j]]]

\* det(Delta) * Phi.T @ alpha
scaled_Phi_T_alpha(Ph, al, De) ==
    [i \in 1..Len(De) |-> Det(De) * SumSeq([d \in 1..Len(Ph) |-> Ph[d][i] * al[d]])]

\* m = V @ Phi.T @ alpha with V = inv(Phi.T @ Phi + inv(Delta))
target_mean(Ph, al, De) ==
    linalg_solve(precision(Ph, De), scaled_Phi_T_alpha(Ph, al, De))

\* two vectors of rationals are equal
RatVecEq(r1, r2) ==
    /\ r1.den # 0 /\ r2.den # 0
    /\ Len(r1.num) = Len(r2.num)
    /\ \A i \in 1..Len(r1.num) : r1.num[i] * r2.den = r2.num[i] * r1.den

(***************************************************************************)
(* Seeded generators: np.random.default_rng(seed).                         *)
(*                                                                         *)
(* A generator is its key and the number of values drawn so far; the key   *)
(* is the seed, or fresh entropy when the seed is None.  loc holds the     *)
(* seed argument, which of the two constructions is repeated, and the      *)
(* values the calls made so far have returned.                             *)
(***************************************************************************)
\* the seeds and the entropy a generator is keyed with
Seeds == {0, 1, 2}

\* seed: Optional[int]
SeedArgs == {[given |-> FALSE, value |-> 0]} \cup {[given |-> TRUE, value |-> s] : s \in Seeds}

\* the n-th standard normal of the stream with this key (n = 0, 1, ...)
standard_normal(key, n) == ((key + n * n + key * n) % 3) - 1

\* a generator keyed with fresh entropy whatever the seed
default_rng_entropy(seed, entropy) == [key |-> entropy, pos |-> 0]

\* np.random.default_rng(seed)
default_rng(seed, entropy) ==
    [key |-> IF seed.given THEN seed.value ELSE entropy, pos |-> 0]

\* the next n standard normals of the generator, and the generator after them
draws(rng, n) == [i \in 1..n |-> standard_normal(rng.key, rng.pos + i - 1)]
advance(rng, n) == [rng EXCEPT !.pos = @ + n]

\* rng.multivariate_normal(np.zeros(N), Delta): a vector fixed by Delta and
\* by the standard normals drawn
multivariate_normal(De, z) == [i \in 1..Len(z) |-> IF z[i] = 1 THEN 2 ELSE z[i]]

\* sample_gaussian_efficient(Phi, alpha, Delta, seed)
seeded_sample(Ph, al, De, seed, entropy) ==
    LET rng0 == default_rng(seed, entropy)
        z    == draws(rng0, N)
        uu   == IF De.ndim = 1
                THEN [i \in 1..N |-> np_sqrt(De.data[i]) * z[i]]
                ELSE multivariate_normal(De.data, z)
        ee   == draws(advance(rng0, N), Len(Ph))
    IN  sampler_theta(Ph, al, De, uu, ee)

\* FactorizationMachines(N, K, seed=seed).params, with the default sigmas
\* (sigma_b_init = 0, sigma_w_init = sigma_v_init = 1)
seeded_params(seed, entropy) ==
    LET rng0 == default_rng(seed, entropy)
        rng1 == advance(rng0, 1)
        rng2 == advance(rng1, N)
        zv   == draws(rng2, N * K)
    IN  [b |-> 0 * draws(rng0, 1)[1],
         w |-> draws(rng1, N),
         v |-> [i \in 1..N |-> [k \in 1..K |-> zv[(i - 1) * K + k]]]]

InitSeed ==
    /\ \E seed \in SeedArgs :
         \/ /\ loc = [seed |-> seed, builds |-> "sampler", returned |-> <<>>]
            /\ Phi \in Batches(PhiVals, MaxD)
            /\ alpha \in SeqsOf(AlphaVals, Len(Phi))
            /\ Delta \in Deltas
         \/ /\ loc = [seed |-> seed, builds |-> "fm", returned |-> <<>>]
            /\ Phi = None /\ alpha = None /\ Delta = None
    /\ DeltaL = None /\ u = None /\ eps = None /\ sv = None /\ sw = None
    /\ theta = None
    /\ x = None /\ b = 0 /\ w = None /\ v = None /\ f = None /\ q = None
    /\ y_data = None /\ it = 0 /\ ret = None /\ pc = "seeded"

\* the caller's Delta after np.diag had written into the argument
np_diag_in_place(De) == Matrix(local_Delta(De))

\* the caller's Delta after "Delta = np.diag(Delta)": the assignment binds
\* the local name to a new array
caller_Delta(De) == De

\* theta = sample_gaussian_efficient(Phi, alpha, Delta, seed); DeltaL is the
\* function's local Delta
SeededSample ==
    /\ pc = "seeded" /\ loc.builds = "sampler" /\ Len(loc.returned) < 2
    /\ \E entropy \in Seeds :
         theta' = seeded_sample(Phi, alpha, Delta, loc.seed, entropy)
    /\ loc' = [loc EXCEPT !.returned = Append(@, theta')]
    /\ DeltaL' = Matrix(local_Delta(Delta))
    /\ Delta' = caller_Delta(Delta)
    /\ UNCHANGED <<fmVars, y_data, it, ret, pc, Phi, alpha, u, eps, sv, sw>>

\* fm = FactorizationMachines(N, K, seed=seed)
SeededFM ==
    /\ pc = "seeded" /\ loc.builds = "fm" /\ Len(loc.returned) < 2
    /\ \E entropy \in Seeds :
         LET prm == seeded_params(loc.seed, entropy)
         IN  /\ b' = prm.b /\ w' = prm.w /\ v' = prm.v
             /\ loc' = [loc EXCEPT !.returned = Append(@, prm)]
    /\ UNCHANGED <<x, f, q, y_data, it, ret, pc, gsVars>>

NextSeed == SeededSample \/ SeededFM

SpecSeed == InitSeed /\ [][NextSeed]_vars

(***************************************************************************)
(* The factorization machine as the notebook defines it:                   *)
(* f(x) = b + sum_i w_i x_i + sum_{i<j} sum_k v_ik v_jk x_i x_j            *)
(***************************************************************************)
fm_definition(prm, row) ==
    prm.b
    + SumSeq([i \in 1..N |-> prm.w[i] * row[i]])
    + SumSeq([i \in 1..N |->
        SumSeq([j \in 1..N |->
          IF i < j
          THEN SumSeq([k \in 1..K |-> prm.v[i][k] * prm.v[j][k] * row[i] * row[j]])
          ELSE 0])])

\* self.params with one scalar parameter set to c
with_b(prm, c) == [prm EXCEPT !.b = c]
with_w(prm, i, c) == [prm EXCEPT !.w[i] = c]
with_v(prm, i, k, c) == [prm EXCEPT !.v[i][k] = c]

(***************************************************************************)
(* C1: after every update of the sweep the incrementally maintained f      *)
(* equals predict(x) recomputed from scratch with the current parameters.  *)
(***************************************************************************)
C1_FEqualsPredict == f.val = predict(params, Matrix(x)).val

\* updates have set b and an entry of v (to a value the constructor never
\* draws), and that entry's derivative is not zero in some row
C1_Witness ==
    /\ b # 0
    /\ \E i \in 1..N, k \in 1..K, d \in 1..Len(x) :
         v[i][k] \notin VInitVals /\ calc_h_v(x, v, i, k)[d] # 0

(***************************************************************************)
(* C2: q-consistency: after calc_q_init and any number of single-entry     *)
(* updates of v, q equals x @ v recomputed from scratch, for every row d   *)
(* and factor k.                                                           *)
(***************************************************************************)
C2_QEqualsXV ==
    \A d \in 1..Len(x), k \in 1..K : q[d][k] = SumSeq([j \in 1..N |-> x[d][j] * v[j][k]])

\* an entry of v has been updated and its feature is set in some row
C2_Witness ==
    \E i \in 1..N, k \in 1..K, d \in 1..Len(x) :
        v[i][k] \notin VInitVals /\ x[d][i] # 0 /\ q[d][k] # 0

(***************************************************************************)
(* C3: at every step the cached-q derivative calc_h_v_fast equals the      *)
(* naive derivative calc_h_v computed from the current v, for every (i, k) *)
(* and every row.                                                          *)
(***************************************************************************)
C3_FastHEqualsNaiveH ==
    \A i \in 1..N, k \in 1..K : calc_h_v_fast(x, v, q, i, k) = calc_h_v(x, v, i, k)

\* after updates of two entries of one column of v a derivative is not zero
C3_Witness ==
    \E i \in 1..N, j \in 1..N, k \in 1..K, d \in 1..Len(x) :
        /\ i # j /\ v[i][k] \notin VInitVals /\ v[j][k] \notin VInitVals
        /\ calc_h_v_fast(x, v, q, i, k)[d] # 0

(***************************************************************************)
(* C4: FM linearity: for theta in {b, w_i, v_ik}, h_theta and              *)
(* g_theta = calc_g(predict(x), h_theta, theta) do not change when theta   *)
(* alone is set to any other value, so f = theta * h_theta + g_theta.      *)
(***************************************************************************)
g_b(prm) == calc_g(predict(prm, Matrix(x)), calc_h_b(x), prm.b)
g_w(prm, i) == calc_g(predict(prm, Matrix(x)), calc_h_w(x, i), prm.w[i])
g_v(prm, i, k) == calc_g(predict(prm, Matrix(x)), calc_h_v(x, prm.v, i, k), prm.v[i][k])

C4_Linearity ==
    /\ \A c \in BVals \ {b} : g_b(with_b(params, c)) = g_b(params)
    /\ \A i \in 1..N : \A c \in WVals \ {w[i]} :
         g_w(with_w(params, i, c), i) = g_w(params, i)
    /\ \A i \in 1..N, k \in 1..K :
         /\ \A c \in VVals \ {v[i][k]} :
              /\ calc_h_v(x, with_v(params, i, k, c).v, i, k) = calc_h_v(x, v, i, k)
              /\ g_v(with_v(params, i, k, c), i, k) = g_v(params, i, k)
         /\ predict(params, Matrix(x)).val
              = [d \in 1..Len(x) |->
                   v[i][k] * calc_h_v(x, v, i, k)[d] + g_v(params, i, k)[d]]

\* a parameter v_ik with a non-zero value and a non-zero derivative
C4_Witness ==
    \E i \in 1..N, k \in 1..K, d \in 1..Len(x) :
        v[i][k] \notin VInitVals /\ calc_h_v(x, v, i, k)[d] # 0 /\ g_v(params, i, k)[d] # 0

(***************************************************************************)
(* C5: predict's reformulated interaction term equals the defining         *)
(* pairwise sum: predict(x) = b + sum_i w_i x_i                            *)
(* + sum_{i<j} sum_k v_ik v_jk x_i x_j, for a batch and for a single row.  *)
(***************************************************************************)
C5_PredictIsDefinition ==
    \A d \in 1..Len(x) :
        /\ predict(params, Matrix(x)).val[d] = fm_definition(params, x[d])
        /\ predict(params, Vector(x[d])).val[1] = fm_definition(params, x[d])

\* a row whose pairwise interaction term is not zero
C5_Witness ==
    \E d \in 1..Len(x) :
        fm_definition(params, x[d]) # b + SumSeq([i \in 1..N |-> w[i] * x[d][i]])

(***************************************************************************)
(* C6: predict returns a scalar for a single row (N-vector) and a          *)
(* length-D vector for a batch (D x N matrix), for every D >= 1.           *)
(***************************************************************************)
C6_PredictShape ==
    /\ \A d \in 1..Len(x) : predict(params, Vector(x[d])).kind = "float"
    /\ predict(params, Matrix(x)).kind = "ndarray"
    /\ Len(predict(params, Matrix(x)).val) = Len(x)

(***************************************************************************)
(* C7: in the update loop fast_updates the saved f is updated each time    *)
(* the parameter gets a new value, so at the start of every iteration the  *)
(* f passed to calc_xy_v equals predict(x_data) under the current          *)
(* parameters.                                                             *)
(***************************************************************************)
C7_LoopFIsPredict == pc = "loop" => f.val = predict(params, Matrix(x)).val

(***************************************************************************)
(* C9: given the draws u and eps, the sampler computes v = Phi u + eps,    *)
(* then w as the solution of (Phi Delta Phi^T + I_D) w = alpha - v, then   *)
(* returns theta = u + Delta Phi^T w, in that order, with the same u, v, w *)
(* and the same Delta (the argument, as a matrix) in steps 3 and 4.        *)
(***************************************************************************)
\* the argument Delta as an N x N matrix
DeltaEntry(i, j) ==
    IF Delta.ndim = 1 THEN (IF i = j THEN Delta.data[i] ELSE 0) ELSE Delta.data[i][j]

\* entry (d, e) of Phi Delta Phi^T + I_D
SystemEntry(d, e) ==
    SumSeq([i \in 1..N |-> SumSeq([j \in 1..N |->
        Phi[d][i] * DeltaEntry(i, j) * Phi[e][j]])]) + (IF d = e THEN 1 ELSE 0)

C9_SamplerEquations ==
    /\ pc \in {"sample_u"} => u = None
    /\ pc \in {"sample_u", "sample_v"} => sv = None
    /\ pc \in {"sample_u", "sample_v", "solve"} => sw = None
    /\ pc # "done" => theta = None
    /\ pc = "done" =>
         /\ \A d \in 1..Len(Phi) :
              sv[d] = SumSeq([i \in 1..N |-> Phi[d][i] * u[i]]) + eps[d]
         /\ sw.den # 0
         /\ \A d \in 1..Len(Phi) :
              SumSeq([e \in 1..Len(Phi) |-> SystemEntry(d, e) * sw.num[e]])
                = sw.den * (alpha[d] - sv[d])
         /\ theta.den = sw.den
         /\ \A i \in 1..N :
              theta.num[i]
                = sw.den * u[i]
                  + SumSeq([j \in 1..N |-> SumSeq([d \in 1..Len(Phi) |->
                      DeltaEntry(i, j) * Phi[d][j] * sw.num[d]])])

\* a finished call with D >= 2, a Delta that is no multiple of the identity,
\* non-zero draws and a non-zero solution w
C9_Witness ==
    /\ pc = "done" /\ Len(Phi) >= 2
    /\ DeltaEntry(1, 1) # DeltaEntry(2, 2)
    /\ \E i \in 1..N : u[i] # 0
    /\ \E d \in 1..Len(Phi) : eps[d] # 0
    /\ \A d \in 1..Len(Phi) : sw.num[d] # 0
    /\ sw.den > 1

(***************************************************************************)
(* C10: for a diagonal Delta the call with the length-N vector Delta and   *)
(* the call with the N x N matrix diag(Delta) return the same theta for    *)
(* the same u and eps.                                                     *)
(***************************************************************************)
\* the argument Delta in its other form, when it is diagonal
OtherForm(De) ==
    IF De.ndim = 1
    THEN Matrix([i \in 1..N |-> [j \in 1..N |-> IF i = j THEN De.data[i] ELSE 0]])
    ELSE Vector([i \in 1..Len(De.data) |-> De.data[i][i]])

IsDiagonal(De) ==
    De.ndim = 1 \/ \A i \in 1..N, j \in 1..N : i # j => De.data[i][j] = 0

C11_MismatchRejected == (pc = "returned") => ConsistentShapes(ret.op)

(***************************************************************************)
(* C15: predict has no side effects: a call of predict(x), for a 1-D or a  *)
(* 2-D x, leaves the parameters b, w, v, the caller's x (its shape         *)
(* included) and the cached f and q unchanged, and a second call with the  *)
(* same x and parameters returns the same value.                           *)
(***************************************************************************)
C15_PredictNoSideEffects ==
    [][ret'.op = "predict" =>
          /\ UNCHANGED <<x, b, w, v, f, q>>
          /\ loc' \in {Matrix(x)} \cup {Vector(x[d]) : d \in 1..Len(x)}
          /\ (pc # "call" /\ loc' = loc) => ret' = ret]_vars

\* a call of predict on a single row (a 1-D x) returned a non-zero score
C15_Witness ==
    /\ pc = "returned" /\ ret.op = "predict"
    /\ loc.ndim = 1 /\ ret.val.kind = "float" /\ ret.val.val[1] # 0

(***************************************************************************)
(* C12: the sampler rejects with a shape error every call in which Phi     *)
(* (D x N), alpha (length D) and Delta (N x N, or length N) are            *)
(* dimensionally inconsistent; it never proceeds to return a sample.       *)
(***************************************************************************)
C12_ShapeMismatchRejected == ~GaussShapesConsistent => (pc # "done" /\ theta = None)

(***************************************************************************)
(* C13: the sampler validates Delta and rejects a Delta that is not        *)
(* positive definite (a diagonal Delta with a zero or negative entry in    *)
(* particular) before it draws any sample; it never returns a theta for    *)
(* such an input.                                                          *)
(***************************************************************************)
C13_NonPDRejected ==
    (GaussShapesConsistent /\ ~DeltaIsPD) => (u = None /\ theta = None)

(***************************************************************************)
(* C14: for every Phi and every symmetric positive definite Delta (a       *)
(* diagonal one has strictly positive entries) the matrix                  *)
(* Phi Delta Phi^T + I_D is positive definite, w^T M w > 0 for all         *)
(* w # 0, so the system of step 3 has exactly one solution and the solve   *)
(* never fails.                                                            *)
(***************************************************************************)
\* Phi Delta Phi^T + I_D, entry by entry
SystemM == [d \in 1..Len(Phi) |-> [e \in 1..Len(Phi) |-> SystemEntry(d, e)]]

\* w^T m w
QuadForm(m, ww) ==
    SumSeq([d \in 1..Len(m) |-> SumSeq([e \in 1..Len(m) |-> ww[d] * m[d][e] * ww[e]])])

\* vectors w # 0 the form is evaluated on
TestVectors(n) == {ww \in SeqsOf({-1, 0, 1, 2}, n) : \E d \in 1..n : ww[d] # 0}

C14_SystemIsPD ==
    /\ pc \notin {"LinAlgError", "ValueError"}
    /\ DeltaIsPD
    /\ pc = "solve" =>
         LET M == SystemM
         IN  /\ IsSPD(M)
             /\ \A ww \in TestVectors(Len(Phi)) : QuadForm(M, ww) > 0
    /\ pc = "return" =>
         LET M == SystemM
         IN  /\ sw.den = Det(M) /\ sw.den > 0
             /\ \A d \in 1..Len(Phi) :
                   SumSeq([e \in 1..Len(Phi) |-> M[d][e] * sw.num[e]])
                     = sw.den * (alpha[d] - sv[d])

\* the solve succeeded for a system of at least two equations that are coupled
C14_Witness ==
    /\ pc = "return" /\ Len(Phi) >= 2
    /\ SystemM[1][2] # 0 /\ Det(SystemM) > 1
    /\ \E d \in 1..Len(Phi) : sw.num[d] # 0

(***************************************************************************)
(* C16: updates of (f, q) are applied in the order the parameters are      *)
(* sampled.  In a sequential sweep, where each h is computed from the q    *)
(* and v that reflect all earlier updates, f and q stay equal to predict   *)
(* and x @ v.  An h for v_jk computed from a q that misses an earlier      *)
(* update of v_ik (same factor k, x_i * x_j # 0 in some row, new # old)    *)
(* differs from calc_h_v on the current v, and the f built from it         *)
(* differs from predict.                                                   *)
(*                                                                         *)
(* In a step that changes v[i, k] the q before the step is the q that      *)
(* misses the update, and v' is the current v.                             *)
(***************************************************************************)
\* the h for v[j, k] from the q that misses the step's update
StaleH(j, k) == calc_h_v_fast(x, v', q, j, k)

\* f after the update of v[j, k] to c built from that h
StaleF(j, k, c) == AddF(f', calc_df(StaleH(j, k), c, v'[j][k]))

\* the sweep stays consistent, and the stale h differs
C16_InOrder(i, j, k) ==
    /\ f'.val = predict(params', Matrix(x)).val
    /\ q' = calc_q_init(x, v')
    /\ calc_h_v_fast(x, v', q', j, k) = calc_h_v(x, v', j, k)
    /\ StaleH(j, k) # calc_h_v(x, v', j, k)

\* v[i, k] changes in the step and x_i * x_j # 0 in some row
C16_Case(i, j, k) ==
    /\ v'[i][k] # v[i][k]
    /\ \E d \in 1..Len(x) : x[d][i] * x[d][j] # 0

\* the claim as stated: the f built from the stale h differs from predict
\* whatever value v[j, k] is given
C16_StaleOrderDiffers ==
    [][\A i \in 1..N, j \in 1..N, k \in 1..K :
          C16_Case(i, j, k) =>
            /\ C16_InOrder(i, j, k)
            /\ \A c \in VVals :
                 StaleF(j, k, c).val # predict(with_v(params', j, k, c), Matrix(x)).val]_vars

\* amended: the f built from the stale h differs from predict when the update
\* of v[j, k] changes its value, and equals predict when it does not
C16_StaleOrderDiffersOnChange ==
    [][\A i \in 1..N, j \in 1..N, k \in 1..K :
          C16_Case(i, j, k) =>
            /\ C16_InOrder(i, j, k)
            /\ \A c \in VVals :
                 (c # v'[j][k]) <=>
                   (StaleF(j, k, c).val # predict(with_v(params', j, k, c), Matrix(x)).val)]_vars

\* v[i, k] was updated in a batch with a row where x_i * x_j # 0, i # j, and
\* the h for v[j, k] is no longer what it was before that update
C16_Witness ==
    \E i \in 1..N, j \in 1..N, k \in 1..K, d \in 1..Len(x), c \in VInitVals :
        /\ i # j /\ v[i][k] \notin VInitVals /\ x[d][i] * x[d][j] # 0
        /\ calc_h_v(x, v, j, k)[d] # calc_h_v(x, [v EXCEPT ![i][k] = c], j, k)[d]

(***************************************************************************)
(* C17: concurrent mutation of one shared (f, q, v) by two updaters        *)
(* without synchronization is unsafe: some interleaving of two update      *)
(* sequences ends with q # x @ v or f # predict(x), whereas every purely   *)
(* sequential execution of the same two updates keeps both equalities.     *)
(***************************************************************************)
\* no updater is inside its sequence
Quiescent == \A p \in Updaters : ~Running(p)

Consistent ==
    /\ q = calc_q_init(x, v)
    /\ f.val = predict(params, Matrix(x)).val

\* executions in which the two sequences never overlapped keep both equalities
C17_SequentialIsSafe == (Quiescent /\ ~loc.overlapped) => Consistent

\* both updaters are done after overlapping sequences, and an equality is lost
C17_Witness ==
    /\ \A p \in Updaters : loc.upd[p].pc = "done"
    /\ loc.overlapped
    /\ ~Consistent

(***************************************************************************)
(* C18: the update of v[i, k] runs in the order (1) h from the current q   *)
(* and v, (2) q[:, k] += calc_dq(x, v_new, v, i, k) while v[i, k] still    *)
(* holds the old value, (3) v[i, k] = v_new.  calc_dq reads the old value  *)
(* from v, so after the commit it would return zeros and q would no        *)
(* longer equal x @ v.                                                     *)
(***************************************************************************)
\* v with the new value committed
Committed == [v EXCEPT ![1][1] = loc.v_ik_new]

\* what calc_dq returns when it is called after the commit
LateDq == calc_dq(x, loc.v_ik_new, Committed, 1, 1)

\* the three steps in their order, on the state each of them sees
StepsInOrder ==
    /\ pc \in {"h", "return", "done"} => q = calc_q_init(x, v)
    /\ pc = "v_ik_new" => (q = calc_q_init(x, v) /\ loc.h = calc_h_v(x, v, 1, 1))
    /\ pc = "dq" =>
         /\ q = calc_q_init(x, v) /\ loc.h = calc_h_v(x, v, 1, 1)
         /\ v[1][1] # loc.v_ik_new
    /\ pc = "commit" =>
         /\ v[1][1] # loc.v_ik_new
         /\ q = calc_q_init(x, Committed)

\* C18 as stated: a commit before step (2) always leaves q different from
\* x @ v
C18_LateDqBreaksQ ==
    /\ StepsInOrder
    /\ pc = "dq" =>
         /\ \A d \in 1..Len(x) : LateDq[d] = 0
         /\ AddQCol(q, 1, LateDq) # calc_q_init(x, Committed)

\* C18, amended: a commit before step (2) makes calc_dq return zeros, and
\* leaves q different from x @ v exactly when column i of x is not all zero
C18_UpdateOrder ==
    /\ StepsInOrder
    /\ pc = "dq" =>
         /\ \A d \in 1..Len(x) : LateDq[d] = 0
         /\ (\E d \in 1..Len(x) : x[d][1] # 0) <=>
               (AddQCol(q, 1, LateDq) # calc_q_init(x, Committed))
    /\ pc = "commit" =>
         ((\E d \in 1..Len(x) : x[d][1] # 0) <=> (q # calc_q_init(x, v)))

\* in a later pass of the loop q has been updated and v[0, 0] not yet
C18_Witness ==
    /\ pc = "commit" /\ it >= 1
    /\ \E d \in 1..Len(x) : x[d][1] # 0 /\ q[d][1] # 0

(***************************************************************************)
(* C19: in an update loop calc_q_init is executed exactly once, before     *)
(* the first update; afterwards q is only changed by adding calc_dq to     *)
(* one column and is never recomputed from (x, v), for any number of       *)
(* iterations.                                                             *)
(***************************************************************************)
\* q' is q with dq added to column k and nothing else changed
OneColumnAdded(k, dq) ==
    \A d \in 1..Len(q), kk \in 1..K :
        q'[d][kk] = q[d][kk] + (IF kk = k THEN dq[d] ELSE 0)

C19_QInitOnce ==
    /\ [](pc = "q_init" <=> loc.q_inits = 0)
    /\ [](pc # "q_init" => loc.q_inits = 1)
    /\ [][pc = "q_init" => (it = 0 /\ v' = v /\ q' = calc_q_init(x, v))]_vars
    /\ [][(pc # "q_init" /\ q' # q) =>
            /\ pc = "dq"
            /\ OneColumnAdded(1, calc_dq(x, loc.v_ik_new, v, 1, 1))]_vars

\* the loop has run all its passes, with one call of calc_q_init
C19_Witness ==
    /\ pc = "done" /\ it = MaxIter /\ it >= 2 /\ loc.q_inits = 1
    /\ \E d \in 1..Len(x) : q[d][1] # 0

(***************************************************************************)
(* C20: with the noise fixed to u = 0 and eps = 0 the returned theta       *)
(* equals the target mean m, that is (Phi^T Phi + Delta^-1) theta =        *)
(* Phi^T alpha, for every Phi, alpha and positive definite Delta; and      *)
(* theta is affine in (u, eps).                                            *)
(***************************************************************************)
\* the draws the affinity of theta is checked on
OtherU == SeqsOf(UVals, N)
OtherEps == {[d \in 1..Len(Phi) |-> e] : e \in EpsVals}

\* the unit vector e_j of length n
unit(n, j) == [i \in 1..n |-> IF i = j THEN 1 ELSE 0]

\* the array the function returns, every entry computed
returned_array(a) == CHOOSE c \in {a} : c = a

\* theta(u, eps) is theta(0, 0) plus a linear map of (u, eps): the map is
\* fixed by the thetas of the unit draws, and theta agrees with it on the
\* other draws
AffineInDraws ==
    LET zu == [i \in 1..N |-> 0]
        ze == [d \in 1..Len(Phi) |-> 0]
    IN  \E t0 \in {returned_array(sampler_theta(Phi, alpha, Delta, zu, ze))},
           tu \in {returned_array([j \in 1..N |->
                      sampler_theta(Phi, alpha, Delta, unit(N, j), ze)])},
           te \in {returned_array([d \in 1..Len(Phi) |->
                      sampler_theta(Phi, alpha, Delta, zu, unit(Len(Phi), d))])} :
          /\ \A j \in 1..N : tu[j].den = t0.den
          /\ \A d \in 1..Len(Phi) : te[d].den = t0.den
          /\ \A u1 \in OtherU, e1 \in OtherEps :
               sampler_theta(Phi, alpha, Delta, u1, e1)
                 = [num |-> [i \in 1..N |->
                       t0.num[i]
                         + SumSeq([j \in 1..N |-> u1[j] * (tu[j].num[i] - t0.num[i])])
                         + SumSeq([d \in 1..Len(Phi) |->
                               e1[d] * (te[d].num[i] - t0.num[i])])],
                    den |-> t0.den]

C20_MeanIdentity ==
    /\ pc = "sample_u" => AffineInDraws
    /\ pc = "done" =>
         LET De == local_Delta(Delta)
         IN  /\ theta = sampler_theta(Phi, alpha, Delta, u, eps)
             /\ (u = [i \in 1..N |-> 0] /\ eps = [d \in 1..Len(Phi) |-> 0]) =>
                  LET P == precision(Phi, De)
                      r == scaled_Phi_T_alpha(Phi, alpha, De)
                  IN  /\ theta.den # 0 /\ Det(De) # 0 /\ Det(P) # 0
                      /\ \A i \in 1..N :
                           SumSeq([j \in 1..N |-> P[i][j] * theta.num[j]])
                             = theta.den * r[i]
                      /\ RatVecEq(theta, target_mean(Phi, alpha, De))

\* a call with no noise, D >= 2, a Delta that is not diagonal and a
\* non-zero mean
C20_Witness ==
    /\ pc = "done" /\ Len(Phi) >= 2
    /\ u = [i \in 1..N |-> 0] /\ eps = [d \in 1..Len(Phi) |-> 0]
    /\ Delta.ndim = 2 /\ Delta.data[1][2] # 0
    /\ \E i \in 1..N : theta.num[i] # 0

(***************************************************************************)
(* C21: every randomised operation is a function of its inputs and its     *)
(* random source: two calls of sample_gaussian_efficient with the same     *)
(* seed (not None) and the same Phi, alpha, Delta return the identical     *)
(* theta, and two FactorizationMachines built with the same seed (not      *)
(* None) and sizes hold identical b, w, v.                                 *)
(***************************************************************************)
C21_SeededDeterminism ==
    loc.seed.given =>
        /\ \A c, d \in 1..Len(loc.returned) : loc.returned[c] = loc.returned[d]
        /\ (loc.builds = "sampler" /\ loc.returned # <<>>) =>
              \A e \in Seeds :
                  theta = seeded_sample(Phi, alpha, Delta, loc.seed, e)
        /\ (loc.builds = "fm" /\ loc.returned # <<>>) =>
              \A e \in Seeds :
                  [b |-> b, w |-> w, v |-> v] = seeded_params(loc.seed, e)

\* two calls of the sampler with one seed, some draw and theta not zero
C21_Witness ==
    /\ loc.seed.given /\ loc.builds = "sampler" /\ Len(loc.returned) = 2
    /\ \E n \in 0..(N - 1) : standard_normal(loc.seed.value, n) # 0
    /\ \E i \in 1..N : theta.num[i] # 0

(***************************************************************************)
(* C22: the per-row value g_theta is given by                              *)
(* g_theta = theta * h_theta - f, and calc_g(f, h, p) returns that value   *)
(* for every f, h and p.                                                   *)
(***************************************************************************)
\* calc_g on the cached f for each parameter, as the notebook calls it
cached_g_b == calc_g(f, calc_h_b(x), b)
cached_g_w(i) == calc_g(f, calc_h_w(x, i), w[i])
cached_g_v(i, k) == calc_g(f, calc_h_v_fast(x, v, q, i, k), v[i][k])

y_minus(g) == [d \in 1..Len(g) |-> y_data[d] - g[d]]

C23_PairsAreHAndYMinusG ==
    /\ q = calc_q_init(x, v)
    /\ calc_xy_b(f, b, x, y_data)
         = <<calc_h_b(x), y_minus(calc_g(f, calc_h_b(x), b))>>
    /\ \A i \in 1..N :
         calc_xy_w(f, w, x, y_data, i)
           = <<calc_h_w(x, i), y_minus(calc_g(f, calc_h_w(x, i), w[i]))>>
    /\ \A i \in 1..N, k \in 1..K :
         /\ calc_xy_v(f, q, v, x, y_data, i, k)
              = <<calc_h_v(x, v, i, k),
                  y_minus(calc_g(f, calc_h_v(x, v, i, k), v[i][k]))>>
         /\ calc_xy_v(f, q, v, x, y_data, i, k)
              = calc_xy_v_naive(f, v, x, y_data, i, k)
    /\ ret # None => ret[1] = calc_h_v(x, [v EXCEPT ![1][1] = @ + Step], 1, 1)

\* after a pass of the loop, a pair for an entry of v that is not 0 in a row
\* where its x_v and the rest of q[:, k] are not 0
C23_Witness ==
    /\ pc = "loop" /\ it >= 1
    /\ \E i \in 1..N, k \in 1..K, d \in 1..Len(x) :
         /\ v[i][k] # 0 /\ x[d][i] # 0
         /\ calc_xy_v(f, q, v, x, y_data, i, k)[1][d] # 0
         /\ calc_xy_v(f, q, v, x, y_data, i, k)[2][d] # y_data[d]

(***************************************************************************)
(* C24: frame of an update: an update of b or of w_i changes f only and    *)
(* leaves q and every other parameter unchanged; an update of v[i, k]      *)
(* changes f, column k of q and the single entry v[i, k], and leaves       *)
(* every other column of q, every other entry of v, b, w and x unchanged.  *)
(***************************************************************************)
\* at most entry i of w changes
OnlyW(i) == \A j \in 1..N : j # i => w'[j] = w[j]

\* at most entry (i, k) of v and column k of q change
OnlyV(i, k) ==
    /\ \A j \in 1..N, l \in 1..K : <<j, l>> # <<i, k>> => v'[j][l] = v[j][l]
    /\ \A d \in 1..Len(x), l \in 1..K : l # k => q'[d][l] = q[d][l]

C24_UpdateFrame ==
    [][/\ x' = x /\ Len(f'.val) = Len(f.val) /\ Len(q') = Len(q)
       /\ b' # b => (w' = w /\ v' = v /\ q' = q)
       /\ w' # w => (b' = b /\ v' = v /\ q' = q /\ \E i \in 1..N : OnlyW(i))
       /\ v' # v => (b' = b /\ w' = w /\ \E i \in 1..N, k \in 1..K : OnlyV(i, k))
       /\ q' # q => v' # v
       /\ f'.val # f.val => (b' # b \/ w' # w \/ v' # v)]_vars

\* updates of b and of an entry of v have been made, and column k of q is
\* not zero
C24_Witness ==
    /\ b = 1
    /\ \E i \in 1..N, k \in 1..K, d \in 1..Len(x) :
         v[i][k] = 2 /\ x[d][i] # 0 /\ q[d][k] # 0 /\ f.val[d] # 0

(***************************************************************************)
(* C25: on the cached path h for v[i, k] is invariant under an update of   *)
(* v[i, k] itself: calc_h_v_fast(x, v, q, i, k) before the update and      *)
(* after q[:, k] += calc_dq(...) and v[i, k] = v_new are equal, because    *)
(* q[:, k] - x[:, i] * v[i, k] is unchanged by that update.                *)
(***************************************************************************)
\* q[:, k] - x[:, i] * v[i, k]
rest_of_q(xs, vv, qq, i, k) == [d \in 1..Len(xs) |-> qq[d][k] - xs[d][i] * vv[i][k]]

C25_HInvariantUnderOwnUpdate ==
    [][\A i \in 1..N, k \in 1..K :
         v'[i][k] # v[i][k] =>
           /\ rest_of_q(x', v', q', i, k) = rest_of_q(x, v, q, i, k)
           /\ calc_h_v_fast(x', v', q', i, k) = calc_h_v_fast(x, v, q, i, k)
           /\ \A d \in 1..Len(x) : x[d][i] # 0 => q'[d][k] # q[d][k]]_vars

\* an entry of v has been updated and its h is not zero
C25_Witness ==
    \E i \in 1..N, k \in 1..K, d \in 1..Len(x) :
        /\ v[i][k] = 2 /\ q[d][k] # 2 * x[d][i]
        /\ calc_h_v_fast(x, v, q, i, k)[d] # 0

(***************************************************************************)
(* C26: round trip: changing a single parameter theta (b, w_i or v_ik) by  *)
(* an amount c through the incremental update and then by -c restores the  *)
(* parameter, f and q to their values before the first change, exactly.    *)
(***************************************************************************)
\* the amounts a parameter is changed by
Changes == {-Step, -1, 2, Step}

\* two states of the scorer with the same parameters, f and q
SameScorer(s1, s2) ==
    /\ s1.b = s2.b /\ s1.w = s2.w /\ s1.v = s2.v
    /\ s1.f.val = s2.f.val /\ s1.q = s2.q

\* a step of the sweep is one of the three updates
StepIsUpdate ==
    \/ \E c \in BVals : scorer' = update_b(scorer, c)
    \/ \E i \in 1..N, c \in WVals : scorer' = update_w(scorer, i, c)
    \/ \E i \in 1..N, k \in 1..K, c \in VVals : scorer' = update_v(scorer, i, k, c)

C26_RoundTrip ==
    /\ [][StepIsUpdate]_vars
    /\ [](\A c \in Changes :
           /\ LET there == update_b(scorer, b + c)
              IN  /\ there.b # b
                  /\ SameScorer(update_b(there, there.b - c), scorer)
           /\ \A i \in 1..N :
                LET there == update_w(scorer, i, w[i] + c)
                IN  /\ there.w[i] # w[i]
                    /\ SameScorer(update_w(there, i, there.w[i] - c), scorer)
           /\ \A i \in 1..N, k \in 1..K :
                LET there == update_v(scorer, i, k, v[i][k] + c)
                IN  /\ there.v[i][k] # v[i][k]
                    /\ SameScorer(update_v(there, i, k, there.v[i][k] - c), scorer))

\* after updates of the sweep, an entry of v whose change by Step moves f
\* and q
C26_Witness ==
    /\ b # 0
    /\ \E i \in 1..N, k \in 1..K :
         LET there == update_v(scorer, i, k, v[i][k] - Step)
         IN  there.f.val # f.val /\ there.q # q /\ v[i][k] = 2

(***************************************************************************)
(* C27: an update whose new value equals the old value is a no-op:         *)
(* calc_df(h, p, p) and calc_dq(x, v[i, k], v, i, k) are all zeros, so f,  *)
(* q and the parameters are unchanged.                                     *)
(***************************************************************************)
AllZeros(a) == \A d \in 1..Len(a) : a[d] = 0

C27_SameValueIsNoOp ==
    /\ AllZeros(calc_df(calc_h_b(x), b, b))
    /\ SameScorer(update_b(scorer, b), scorer)
    /\ \A i \in 1..N :
         /\ AllZeros(calc_df(calc_h_w(x, i), w[i], w[i]))
         /\ SameScorer(update_w(scorer, i, w[i]), scorer)
    /\ \A i \in 1..N, k \in 1..K :
         /\ AllZeros(calc_df(calc_h_v_fast(x, v, q, i, k), v[i][k], v[i][k]))
         /\ AllZeros(calc_dq(x, v[i][k], v, i, k))
         /\ Len(calc_dq(x, v[i][k], v, i, k)) = Len(x)
         /\ SameScorer(update_v(scorer, i, k, v[i][k]), scorer)

\* parameters that are not 0, with derivatives that are not 0: an update
\* that ignored the old value would move f and q
C27_Witness ==
    /\ b # 0
    /\ \E i \in 1..N, d \in 1..Len(x) : w[i] # 0 /\ x[d][i] # 0
    /\ \E i \in 1..N, k \in 1..K, d \in 1..Len(x) :
         v[i][k] # 0 /\ x[d][i] # 0 /\ calc_h_v_fast(x, v, q, i, k)[d] # 0

(***************************************************************************)
(* C28: updates to two distinct parameters commute in their result:        *)
(* update A then update B through the incremental path (each h computed    *)
(* from the state current at its turn) gives the same final f, q and       *)
(* parameters as B then A, for every pair of distinct parameters,          *)
(* including two entries of v in the same factor column.                   *)
(***************************************************************************)
\* the scalar parameters: b, w[i], v[i, k]
Parameters ==
    {<<"b", 1, 1>>} \cup {<<"w", i, 1>> : i \in 1..N}
        \cup {<<"v", i, k>> : i \in 1..N, k \in 1..K}

\* the values the two updates give
NewValues == {-1, 2}

\* the incremental update of parameter p to the value c
update(st, p, c) ==
    IF p[1] = "b" THEN update_b(st, c)
    ELSE IF p[1] = "w" THEN update_w(st, p[2], c)
    ELSE update_v(st, p[2], p[3], c)

\* a position of each parameter in the sweep, to take every pair once
rank(p) ==
    IF p[1] = "b" THEN 0
    ELSE IF p[1] = "w" THEN p[2]
    ELSE N + (p[2] - 1) * K + p[3]

\* C28: in every state of the sweep, the two orders of every pair of
\* updates of distinct parameters lead to one state
C28_UpdatesCommute ==
    [](\E first \in {returned_array([a \in Parameters \X NewValues |->
                                       update(scorer, a[1], a[2])])} :
        \A pa, pb \in Parameters : \A ca, cb \in NewValues :
            rank(pa) < rank(pb) =>
                update(first[<<pa, ca>>], pb, cb) = update(first[<<pb, cb>>], pa, ca))

\* two entries of v in one factor column, in a row where both features are
\* set, so that each update changes the h of the other
C28_Witness ==
    \E i, j \in 1..N, k \in 1..K, d \in 1..Len(x) :
        /\ i # j /\ x[d][i] # 0 /\ x[d][j] # 0
        /\ v[i][k] = 0 /\ v[j][k] = 0 /\ b # 0
        /\ calc_h_v_fast(x, update_v(scorer, i, k, 2).v, update_v(scorer, i, k, 2).q, j, k)
             # calc_h_v_fast(x, v, q, j, k)

(***************************************************************************)
(* C29: rows of a batch are scored independently: for a D x N batch X      *)
(* with D >= 2, entry d of predict(X) equals predict applied to the single *)
(* row X[d], and the same holds row by row for calc_q_init, calc_h_w,      *)
(* calc_h_v and calc_h_v_fast.                                             *)
(***************************************************************************)
\* the batch of the single row d of x, and the row of q that goes with it
row_batch(d) == <<x[d]>>
row_q(d) == <<q[d]>>

C29_RowsIndependent ==
    Len(x) >= 2 =>
      LET batch == predict(params, Matrix(x))
      IN  /\ batch.kind = "ndarray" /\ Len(batch.val) = Len(x)
          /\ \A d \in 1..Len(x) :
               /\ predict(params, Vector(x[d])) = Float(batch.val[d])
               /\ predict(params, Matrix(row_batch(d))) = Float(batch.val[d])
               /\ calc_q_init(row_batch(d), v) = <<calc_q_init(x, v)[d]>>
               /\ \A i \in 1..N :
                    /\ calc_h_w(row_batch(d), i) = <<calc_h_w(x, i)[d]>>
                    /\ \A k \in 1..K :
                         /\ calc_h_v(row_batch(d), v, i, k) = <<calc_h_v(x, v, i, k)[d]>>
                         /\ calc_h_v_fast(row_batch(d), v, row_q(d), i, k)
                              = <<calc_h_v_fast(x, v, q, i, k)[d]>>

\* a batch whose rows get different scores and different derivatives
C29_Witness ==
    /\ Len(x) >= 2 /\ it >= 1
    /\ predict(params, Matrix(x)).val[1] # predict(params, Matrix(x)).val[2]
    /\ \E i \in 1..N, k \in 1..K :
         /\ calc_h_v_fast(x, v, q, i, k)[1] # calc_h_v_fast(x, v, q, i, k)[2]
         /\ calc_h_v_fast(x, v, q, i, k)[2] # 0
    /\ q[1] # q[2]

(***************************************************************************)
(* C30: the Gaussian sampler does not modify its arguments: after a call   *)
(* the caller's Phi, alpha and Delta (a length-N Delta included, which is  *)
(* expanded to diag(Delta) only in a local variable) are unchanged, so     *)
(* repeated calls with the same arguments see the same inputs.             *)
(***************************************************************************)
C30_ArgumentsUnchanged ==
    /\ [][Phi' = Phi /\ alpha' = alpha /\ Delta' = Delta]_vars
    /\ [][(loc.builds = "sampler" /\ loc'.returned # loc.returned) =>
            /\ DeltaL' = (IF Delta.ndim = 1 THEN Matrix(np_diag(Delta.data)) ELSE Delta)
            /\ Delta.ndim = 1 => (DeltaL' # Delta /\ Delta'.ndim = 1)
            /\ loc.returned # <<>> => DeltaL' = DeltaL]_vars

\* two calls have been made with a length-N Delta that is not all ones
C30_Witness ==
    /\ loc.builds = "sampler" /\ Len(loc.returned) = 2
    /\ Delta.ndim = 1 /\ DeltaL.ndim = 2 /\ DeltaL.data # np_eye(N)
    /\ \E i \in 1..N : theta.num[i] # 0

====
